---- MODULE Spec2Model ----
(***************************************************************************)
(* midi_to_sc_format (src/midi_to_sc.py): conversion of the note-on events *)
(* of a MIDI file into the textual "SC format", one line per bar.          *)
(*                                                                         *)
(* Python lists are objects: current_bar_notes and the entries of bars are *)
(* references.  heap maps a list's identity to its contents, so that an    *)
(* append through one reference is seen through every other reference to   *)
(* the same list.                                                          *)
(***************************************************************************)
EXTENDS Integers, Sequences, FiniteSets, TLC

VARIABLES
    tracks,             \* midi.tracks: sequence of tracks, each a sequence of messages
    ticks_per_bar,      \* the ticks_per_bar argument
    lyrics,             \* the caller's lyric list (mutated by pop(0))
    lyrics_arg,         \* contents of the lyric list when the call was made
    pc,                 \* position in the function body
    t,                  \* index of the track the outer loop is at (0: none yet)
    pos,                \* number of messages of track t already iterated
    prev_time,
    current_bar_notes,  \* identity of the list bound to current_bar_notes
    bars,               \* the list bars: a sequence of list identities
    heap,               \* contents of every list created for bar notes
    result,             \* the local string result
    i,                  \* index of the bar the formatting loop is at
    returned            \* <<>> until the function returns, then <<text>>

vars == <<tracks, ticks_per_bar, lyrics, lyrics_arg, pc, t, pos, prev_time,
          current_bar_notes, bars, heap, result, i, returned>>

-----------------------------------------------------------------------------
(* Bounds of the model *)

MaxTracks == 2
MaxTotal == 3
MaxLongEvents == 8
MaxLyrics == 1
MaxLongLyrics == 9
MaxTicks == 510
BigTicks == 10000

DefaultTicksPerBar == 480

\* the values of the ticks_per_bar argument the main specification draws from
TicksPerBarSet == {100, DefaultTicksPerBar}

-----------------------------------------------------------------------------
(* Pure helpers of the function *)

note_names ==
    [n \in 60..91 |->
        <<"C4", "C#4", "D4", "D#4", "E4", "F4", "F#4", "G4",
          "G#4", "A4", "A#4", "B4", "C5", "C#5", "D5", "D#5",
          "E5", "F5", "F#5", "G5", "G#5", "A5", "A#5", "B5",
          "C6", "C#6", "D6", "D#6", "E6", "F6", "F#6", "G6">>[n - 59]]

midi_note_to_name(midi_number) ==
    IF midi_number \in DOMAIN note_names THEN note_names[midi_number] ELSE "Unknown"

\* int(x / 10) for an integer x: the quotient truncated towards zero
IntDiv10(x) ==
    IF x >= 0 THEN x \div 10 ELSE -((-x) \div 10)

\* the quantizer with the lower threshold made inclusive (ticks <= 10)
convert_ticks_to_duration_Inclusive(ticks) ==
    IF ticks <= 10 THEN 79
    ELSE IF ticks > 500 THEN 512
    ELSE IntDiv10(ticks)

\* the quantizer with the lower branch limited to 0 <= ticks < 10
convert_ticks_to_duration_NoNegativeClamp(ticks) ==
    IF 0 <= ticks /\ ticks < 10 THEN 79
    ELSE IF ticks > 500 THEN 512
    ELSE IntDiv10(ticks)

convert_ticks_to_duration(ticks) ==
    IF ticks < 10 THEN 79
    ELSE IF ticks > 500 THEN 512
    ELSE IntDiv10(ticks)

\* f"<{note_name}>,<{duration}>"
note_duration(note_name, duration) ==
    "<" \o note_name \o ">,<" \o ToString(duration) \o ">"

RECURSIVE Join(_)
\* " | ".join(bar)
Join(bar) ==
    IF bar = <<>> THEN ""
    ELSE IF Len(bar) = 1 THEN bar[1]
    ELSE bar[1] \o " | " \o Join(Tail(bar))

\* the ordinal list with an eighth word
ORDINALS_Eight ==
    <<"first", "second", "third", "fourth", "fifth", "sixth", "seventh", "eighth">>

ORDINALS == <<"first", "second", "third", "fourth", "fifth", "sixth", "seventh">>

Retained(msg) == msg.type = "note_on" /\ msg.velocity > 0

-----------------------------------------------------------------------------
(* Inputs *)

Msg(ty, n, v, tm) == [type |-> ty, note |-> n, velocity |-> v, time |-> tm]

\* the messages the tracks of the main specification are built from
EventSet ==
    { Msg("note_on", 60, 64, 0),
      Msg("note_on", 64, 64, 480),
      Msg("note_on", 67, 64, 100),
      Msg("note_on", 92, 0, 480),
      Msg("note_off", 60, 64, 480) }

\* the messages of the long single-track inputs
LongEventSet ==
    { Msg("note_on", 60, 64, 0),
      Msg("note_on", 64, 64, 480) }

SeqsUpTo(S, n) == UNION { [1..k -> S] : k \in 0..n }

\* the first n lyric lines "l1", "l2", ...
LyricList(n) == [k \in 1..n |-> "l" \o ToString(k)]

\* state on entry to the function, up to the first statement of the track loop
Entry(trks, tpb, lyr) ==
    /\ tracks = trks
    /\ ticks_per_bar = tpb
    /\ lyrics = lyr
    /\ lyrics_arg = lyr
    /\ pc = "tracks"
    /\ t = 0
    /\ pos = 0
    /\ prev_time = 0
    /\ heap = << <<>> >>
    /\ current_bar_notes = 1
    /\ bars = <<>>
    /\ result = ""
    /\ i = 0
    /\ returned = <<>>

\* cut a flat sequence of messages into nt tracks at the positions cut[1..nt-1]
Cut(flat, nt, cut) ==
    [j \in 1..nt |->
        SubSeq(flat,
               (IF j = 1 THEN 0 ELSE cut[j - 1]) + 1,
               IF j = nt THEN Len(flat) ELSE cut[j])]

Init ==
    \E flat \in SeqsUpTo(EventSet, MaxTotal), nt \in 0..MaxTracks, n \in 0..MaxLyrics :
        \E cut \in [1..(nt - 1) -> 0..Len(flat)], tpb \in TicksPerBarSet :
            /\ \A j \in 1..(nt - 2) : cut[j] <= cut[j + 1]
            /\ nt = 0 => flat = <<>>
            /\ Entry(Cut(flat, nt, cut), tpb, LyricList(n))

InitLong ==
    \E track \in SeqsUpTo(LongEventSet, MaxLongEvents), n \in 0..MaxLongLyrics :
        Entry(<<track>>, DefaultTicksPerBar, LyricList(n))

InitQ ==
    \E d \in (0..MaxTicks) \cup {BigTicks} :
        Entry(<< <<Msg("note_on", 60, 64, d)>> >>, DefaultTicksPerBar, <<>>)

-----------------------------------------------------------------------------
(* The function body *)

\* for track in midi.tracks: the next track is taken
NextTrack ==
    /\ pc = "tracks"
    /\ t < Len(tracks)
    /\ t' = t + 1
    /\ pos' = 0
    /\ pc' = "msgs"
    /\ UNCHANGED <<tracks, ticks_per_bar, lyrics, lyrics_arg, prev_time,
                   current_bar_notes, bars, heap, result, i, returned>>

\* ProcessMsg with the bar-boundary check made for every message
ProcessMsg_BoundaryOnAnyMsg ==
    /\ pc = "msgs"
    /\ pos < Len(tracks[t])
    /\ LET msg == tracks[t][pos + 1]
           note_name == midi_note_to_name(msg.note)
           duration == convert_ticks_to_duration(msg.time - prev_time)
           appended == IF Retained(msg)
                       THEN [heap EXCEPT ![current_bar_notes] =
                                Append(@, note_duration(note_name, duration))]
                       ELSE heap
       IN  /\ IF msg.time >= ticks_per_bar
              THEN /\ bars' = Append(bars, current_bar_notes)
                   /\ heap' = Append(appended, <<>>)
                   /\ current_bar_notes' = Len(heap) + 1
              ELSE /\ heap' = appended
                   /\ UNCHANGED <<bars, current_bar_notes>>
           /\ prev_time' = msg.time
    /\ pos' = pos + 1
    /\ UNCHANGED <<tracks, ticks_per_bar, lyrics, lyrics_arg, pc, t, result, i, returned>>

\* ProcessMsg with prev_time updated only by the retained note-on messages
ProcessMsg_PrevTimeOfNotesOnly ==
    /\ pc = "msgs"
    /\ pos < Len(tracks[t])
    /\ LET msg == tracks[t][pos + 1]
           note_name == midi_note_to_name(msg.note)
           duration == convert_ticks_to_duration(msg.time - prev_time)
           appended == [heap EXCEPT ![current_bar_notes] =
                            Append(@, note_duration(note_name, duration))]
       IN  IF Retained(msg)
           THEN /\ IF msg.time >= ticks_per_bar
                   THEN /\ bars' = Append(bars, current_bar_notes)
                        /\ heap' = Append(appended, <<>>)
                        /\ current_bar_notes' = Len(heap) + 1
                   ELSE /\ heap' = appended
                        /\ UNCHANGED <<bars, current_bar_notes>>
                /\ prev_time' = msg.time
           ELSE UNCHANGED <<bars, heap, current_bar_notes, prev_time>>
    /\ pos' = pos + 1
    /\ UNCHANGED <<tracks, ticks_per_bar, lyrics, lyrics_arg, pc, t, result, i, returned>>

\* one iteration of: for msg in track
ProcessMsg ==
    /\ pc = "msgs"
    /\ pos < Len(tracks[t])
    /\ LET msg == tracks[t][pos + 1]
           note_name == midi_note_to_name(msg.note)
           duration == convert_ticks_to_duration(msg.time - prev_time)
           appended == [heap EXCEPT ![current_bar_notes] =
                            Append(@, note_duration(note_name, duration))]
       IN  /\ IF Retained(msg)
              THEN IF msg.time >= ticks_per_bar
                   THEN /\ bars' = Append(bars, current_bar_notes)
                        /\ heap' = Append(appended, <<>>)
                        /\ current_bar_notes' = Len(heap) + 1
                   ELSE /\ heap' = appended
                        /\ UNCHANGED <<bars, current_bar_notes>>
              ELSE UNCHANGED <<bars, heap, current_bar_notes>>
           /\ prev_time' = msg.time
    /\ pos' = pos + 1
    /\ UNCHANGED <<tracks, ticks_per_bar, lyrics, lyrics_arg, pc, t, result, i, returned>>

\* EndTrack with the flush made unconditional
EndTrack_AlwaysFlush ==
    /\ pc = "msgs"
    /\ pos = Len(tracks[t])
    /\ bars' = Append(bars, current_bar_notes)
    /\ pc' = "tracks"
    /\ UNCHANGED <<tracks, ticks_per_bar, lyrics, lyrics_arg, t, pos, prev_time,
                   current_bar_notes, heap, result, i, returned>>

\* the track's messages are exhausted: if current_bar_notes: bars.append(...)
EndTrack ==
    /\ pc = "msgs"
    /\ pos = Len(tracks[t])
    /\ bars' = IF heap[current_bar_notes] # <<>>
               THEN Append(bars, current_bar_notes)
               ELSE bars
    /\ pc' = "tracks"
    /\ UNCHANGED <<tracks, ticks_per_bar, lyrics, lyrics_arg, t, pos, prev_time,
                   current_bar_notes, heap, result, i, returned>>

\* the tracks are exhausted: result = f"Total {len(bars)} lines.\n"
StartFormat ==
    /\ pc = "tracks"
    /\ t = Len(tracks)
    /\ result' = "Total " \o ToString(Len(bars)) \o " lines.\n"
    /\ i' = 0
    /\ pc' = "format"
    /\ UNCHANGED <<tracks, ticks_per_bar, lyrics, lyrics_arg, t, pos, prev_time,
                   current_bar_notes, bars, heap, returned>>

\* lyrics.pop(): the last element removed instead of the first
Pop0_Last(list) == [value |-> list[Len(list)], rest |-> SubSeq(list, 1, Len(list) - 1)]

\* lyrics.pop(0): the element removed and the list as it is left
Pop0(list) == [value |-> Head(list), rest |-> Tail(list)]

\* the f-string of a rendered line; lyric is <<>> or <<lyric_line>>
RenderLine(ordinal, lyric, line) ==
    IF lyric # <<>>
    THEN "The " \o ordinal \o " line: " \o lyric[1] \o ", " \o line \o ",\n"
    ELSE "The " \o ordinal \o " line: " \o line \o ",\n"

\* FormatLine with the ordinal looked up before the lyric is popped
FormatLine_LookupFirst ==
    /\ pc = "format"
    /\ i < Len(bars)
    /\ LET line == Join(heap[bars[i + 1]])
           has_lyric == lyrics # <<>>
           lyric == IF has_lyric THEN <<Pop0(lyrics).value>> ELSE <<>>
       IN  IF i + 1 \in DOMAIN ORDINALS
           THEN /\ lyrics' = IF has_lyric THEN Pop0(lyrics).rest ELSE lyrics
                /\ result' = result \o RenderLine(ORDINALS[i + 1], lyric, line)
                /\ i' = i + 1
                /\ pc' = "format"
           ELSE /\ pc' = "IndexError"
                /\ UNCHANGED <<lyrics, result, i>>
    /\ UNCHANGED <<tracks, ticks_per_bar, lyrics_arg, t, pos, prev_time,
                   current_bar_notes, bars, heap, returned>>

\* one iteration of: for i, bar in enumerate(bars)
FormatLine ==
    /\ pc = "format"
    /\ i < Len(bars)
    /\ LET line == Join(heap[bars[i + 1]])
           has_lyric == lyrics # <<>>
           lyric == IF has_lyric THEN <<Pop0(lyrics).value>> ELSE <<>>
       IN  /\ lyrics' = IF has_lyric THEN Pop0(lyrics).rest ELSE lyrics
           /\ IF i + 1 \in DOMAIN ORDINALS
              THEN /\ result' = result \o RenderLine(ORDINALS[i + 1], lyric, line)
                   /\ i' = i + 1
                   /\ pc' = "format"
              ELSE /\ pc' = "IndexError"
                   /\ UNCHANGED <<result, i>>
    /\ UNCHANGED <<tracks, ticks_per_bar, lyrics_arg, t, pos, prev_time,
                   current_bar_notes, bars, heap, returned>>

\* the bars are exhausted: return result
Return ==
    /\ pc = "format"
    /\ i = Len(bars)
    /\ returned' = <<result>>
    /\ pc' = "returned"
    /\ UNCHANGED <<tracks, ticks_per_bar, lyrics, lyrics_arg, t, pos, prev_time,
                   current_bar_notes, bars, heap, result, i>>

Next ==
    \/ NextTrack
    \/ ProcessMsg
    \/ EndTrack
    \/ StartFormat
    \/ FormatLine
    \/ Return

Spec == Init /\ [][Next]_vars

SpecLong == InitLong /\ [][Next]_vars

SpecQ == InitQ /\ [][Next]_vars

-----------------------------------------------------------------------------
(* Vocabulary of the properties *)

\* the bar list as the caller of the segmenter sees it: the contents of each entry
BarContents == [k \in 1..Len(bars) |-> heap[bars[k]]]

\* the tracks are exhausted: the bar list is the one the formatter renders
Segmented == pc \in {"format", "returned", "IndexError"}

Finished == pc \in {"returned", "IndexError"}

RECURSIVE SumLen(_)
SumLen(ss) == IF ss = <<>> THEN 0 ELSE Len(ss[1]) + SumLen(Tail(ss))

RECURSIVE Flatten(_)
Flatten(ss) == IF ss = <<>> THEN <<>> ELSE ss[1] \o Flatten(Tail(ss))

\* number of note-on messages with velocity > 0 in the input
NoteOnCount ==
    Cardinality(UNION { { <<a, b>> : b \in { c \in 1..Len(tracks[a]) : Retained(tracks[a][c]) } } :
                        a \in 1..Len(tracks) })

\* the token of message k of a track, given the time of the message before it
TokenOf(msg, before) ==
    note_duration(midi_note_to_name(msg.note),
                  convert_ticks_to_duration(msg.time - before))

Trigger(msg) == Retained(msg) /\ msg.time >= ticks_per_bar

RECURSIVE SegmentFrom(_, _, _, _)
\* the bars of messages k.. of a track segmented with previousEventTime prev
\* and currentBar cur, the final partial bar included
SegmentFrom(track, k, prev, cur) ==
    IF k > Len(track)
    THEN IF cur # <<>> THEN <<cur>> ELSE <<>>
    ELSE LET msg == track[k]
         IN  IF Trigger(msg)
             THEN <<Append(cur, TokenOf(msg, prev))>>
                      \o SegmentFrom(track, k + 1, msg.time, <<>>)
             ELSE IF Retained(msg)
             THEN SegmentFrom(track, k + 1, msg.time, Append(cur, TokenOf(msg, prev)))
             ELSE SegmentFrom(track, k + 1, msg.time, cur)

\* a track segmented on its own
SegmentAlone(track) == SegmentFrom(track, 1, 0, <<>>)

-----------------------------------------------------------------------------
(* Properties *)

\* C1: once the tracks are segmented into at most 7 bars, the number of
\* tokens summed over the bars of the bar list equals the number of note-on
\* messages with velocity > 0 of the input.
C1_TokenCountIsNoteOnCount ==
    (Segmented /\ Len(bars) <= 7) => SumLen(BarContents) = NoteOnCount

\* C2: the bar list of a multi-track input is the concatenation, in track
\* order, of the bar lists of each track segmented on its own (previous event
\* time 0, current bar empty).
C2_TracksSegmentedIndependently ==
    Segmented =>
        BarContents = Flatten([k \in 1..Len(tracks) |-> SegmentAlone(tracks[k])])

\* C7: at every point of the conversion every bar held in the bar list has at
\* least one token.
C7_NoEmptyBar ==
    \A k \in 1..Len(bars) : heap[bars[k]] # <<>>

\* C7 witness: two tracks are segmented, the first left a bar by a boundary
\* trigger and the second by the end-of-track flush.
C7_Witness ==
    /\ Segmented
    /\ Len(tracks) = 2
    /\ Len(bars) >= 2
    /\ \E k \in 1..Len(tracks[1]) : Trigger(tracks[1][k])
    /\ tracks[2] # <<>>
    /\ ~ Trigger(tracks[2][Len(tracks[2])])
    /\ bars[Len(bars)] = current_bar_notes

\* the text the formatter has built after n lines, stated by line index: line
\* k carries the k-th lyric of the list as passed when there is one
RECURSIVE TextOfLines(_)
TextOfLines(n) ==
    IF n = 0
    THEN "Total " \o ToString(Len(bars)) \o " lines.\n"
    ELSE TextOfLines(n - 1)
            \o "The " \o ORDINALS[n] \o " line: "
            \o (IF n <= Len(lyrics_arg) THEN lyrics_arg[n] \o ", " ELSE "")
            \o Join(BarContents[n]) \o ",\n"

Min(a, b) == IF a <= b THEN a ELSE b

\* C3: a call that renders N <= 7 bars with L lyrics returns the header and N
\* lines of which line k carries a lyric prefix exactly when k <= L, the
\* lyric being the k-th of the list as passed; the list is left empty when
\* L <= N and otherwise holds the elements after the N-th in order.
C3_LyricsPairedInOrder ==
    (pc = "returned" /\ Len(bars) <= 7) =>
        /\ returned = <<TextOfLines(Len(bars))>>
        /\ lyrics = IF Len(lyrics_arg) <= Len(bars)
                    THEN <<>>
                    ELSE SubSeq(lyrics_arg, Len(bars) + 1, Len(lyrics_arg))

\* C3 witness: a call returned with at least one lyric and fewer lyrics than bars.
C3_Witness ==
    /\ pc = "returned"
    /\ Len(lyrics_arg) >= 1
    /\ Len(lyrics_arg) < Len(bars)
    /\ Len(bars) <= 7

\* C4: the call ends with a returned text exactly when at most 7 bars were
\* produced; with more than 7 bars it ends in the index failure at bar index
\* 7 and nothing is returned; the call does not stop anywhere else.
C4_TextIffAtMostSevenBars ==
    /\ Finished => ((returned # <<>>) <=> (Len(bars) <= 7))
    /\ (Finished /\ Len(bars) > 7) => (pc = "IndexError" /\ i = 7 /\ returned = <<>>)
    /\ returned # <<>> => pc = "returned"
    /\ ~ Finished => (returned = <<>> /\ ENABLED Next)

\* C4 witness: the call failed at the ordinal lookup of an eighth bar.
C4_Witness ==
    /\ pc = "IndexError"
    /\ Len(bars) = 8

\* C5: for a tick delta d >= 0 the duration token is 79 if d < 10, 512 if
\* d > 500 and otherwise floor(d / 10), a value in 1..50; the tokens of 5, 9,
\* 10, 500, 501 and 10000 are 79, 79, 1, 50, 512 and 512.
C5_QuantizerOnNonNegative ==
    (t = 1 /\ pos = 1 /\ Len(tracks[1]) = 1 /\ tracks[1][1].time >= 0) =>
        LET d == tracks[1][1].time
            token == heap[1][1]
        IN  /\ d < 10 => token = "<C4>,<79>"
            /\ d > 500 => token = "<C4>,<512>"
            /\ (d >= 10 /\ d <= 500) =>
                   /\ token = "<C4>,<" \o ToString(d \div 10) \o ">"
                   /\ d \div 10 \in 1..50
            /\ d = 5 => token = "<C4>,<79>"
            /\ d = 9 => token = "<C4>,<79>"
            /\ d = 10 => token = "<C4>,<1>"
            /\ d = 500 => token = "<C4>,<50>"
            /\ d = 501 => token = "<C4>,<512>"
            /\ d = 10000 => token = "<C4>,<512>"

\* C5 witness: the note whose delta is 10, the first delta of the linear range,
\* has been given its token.
C5_Witness ==
    /\ t = 1
    /\ pos = 1
    /\ tracks[1][1].time = 10
    /\ heap[1] # <<>>

\* a step of the message loop
MsgStep == pc = "msgs" /\ pos' = pos + 1

\* C6 as stated: a retained note-on whose time is smaller than the previous
\* event's time gets the token floor(delta / 10), a negative integer.
C6_NegativeDeltaGivesNegativeToken ==
    [][ (MsgStep /\ Retained(tracks[t][pos + 1]) /\ tracks[t][pos + 1].time < prev_time) =>
            LET msg == tracks[t][pos + 1]
                delta == msg.time - prev_time
            IN  /\ delta \div 10 < 0
                /\ heap'[current_bar_notes] =
                       Append(heap[current_bar_notes],
                              "<" \o midi_note_to_name(msg.note) \o ">,<"
                                  \o ToString(delta \div 10) \o ">") ]_vars

\* C6 amended: a retained note-on whose time is smaller than the previous
\* event's time falls in the branch delta < 10 and gets the token 79.
C6_NegativeDeltaGives79 ==
    [][ (MsgStep /\ Retained(tracks[t][pos + 1]) /\ tracks[t][pos + 1].time < prev_time) =>
            LET msg == tracks[t][pos + 1]
            IN  heap'[current_bar_notes] =
                    Append(heap[current_bar_notes],
                           "<" \o midi_note_to_name(msg.note) \o ">,<79>") ]_vars

\* C6 witness: a retained note-on with a time smaller than the time of the
\* message before it in its track has been processed.
C6_Witness ==
    /\ pc = "msgs"
    /\ pos >= 2
    /\ Retained(tracks[t][pos])
    /\ tracks[t][pos].time < tracks[t][pos - 1].time
    /\ (bars # <<>> \/ heap[current_bar_notes] # <<>>)

\* positions of the boundary triggers among the first n messages of a track
TriggersUpTo(track, n) == { j \in 1..n : Trigger(track[j]) }

\* the k-th smallest element of a set of numbers
Kth(S, k) == CHOOSE j \in S : Cardinality({ x \in S : x < j }) = k - 1

\* within the first track: one bar per boundary trigger processed, holding the
\* retained notes after the trigger before it up to and including its own,
\* and at most one more bar, the flushed one, which holds no trigger
SingleTrackBars ==
    t = 1 =>
        LET track == tracks[1]
            trig == TriggersUpTo(track, pos)
            n == Cardinality(trig)
        IN  /\ Len(bars) \in {n, n + 1}
            /\ Len(bars) = n + 1 => pc # "msgs"
            /\ \A k \in 1..Len(bars) :
                   LET lo == IF k = 1 THEN 0 ELSE Kth(trig, k - 1)
                       hi == IF k <= n THEN Kth(trig, k) ELSE pos
                   IN  /\ Len(heap[bars[k]]) =
                              Cardinality({ j \in (lo + 1)..hi : Retained(track[j]) })
                       /\ k <= n =>
                              heap[bars[k]][Len(heap[bars[k]])] =
                                  TokenOf(track[hi],
                                          IF hi = 1 THEN 0 ELSE track[hi - 1].time)

FirstProcessed == pos = 0 /\ \A a \in 1..(t - 1) : tracks[a] = <<>>

C10_LyricsDrainedBeforeFailure ==
    pc = "IndexError" =>
        LET L == Len(lyrics_arg)
        IN  /\ Len(lyrics) = L - Min(L, 8)
            /\ lyrics = SubSeq(lyrics_arg, Min(L, 8) + 1, L)
            /\ L > 0 => lyrics # lyrics_arg

\* C10 witness: the call failed with a list of at least 8 lyrics.
C10_Witness ==
    /\ pc = "IndexError"
    /\ Len(lyrics_arg) >= 8
    /\ Len(lyrics) = Len(lyrics_arg) - 8

====
